---- MODULE Spec2Model ----
(***************************************************************************)
(* Currency rate service: ingestion (upstream fetch with retry/backoff,    *)
(* check-then-save deduplication per minute window), the manual trigger,   *)
(* the cron scheduler and the test-save endpoint, over one shared          *)
(* exchange_rates table with a unique index on                             *)
(* (baseCurrency, targetCurrency, fetchedAtMinute); the read side (latest   *)
(* rates, latest timestamp, average over a period) and the HTTP boundary   *)
(* (route table, ApiKeyGuard).                                             *)
(*                                                                         *)
(* Time is in milliseconds.  Rates are integers counting 10^-7 so that the *)
(* rounding to 6 fractional digits (toFixed(6)) is a real conversion.      *)
(***************************************************************************)
EXTENDS Integers, Sequences, FiniteSets, TLC

\* ------------------------------------------------------------------ bounds
\* Number of operations (manual triggers, cron ticks, test-saves) started.
MaxOps == 2
\* Number of clock ticks of ClockStep the environment may let pass.
MaxTicks == 2
\* Number of rows of the table whose reads are examined.
MaxRows == 3

\* Handler invocations of the single Node process that can be in flight
\* together.  Cron handlers can overlap each other and an HTTP request; at most
\* one HTTP request is in flight at a time.
Procs == {1, 2}
HttpContexts == {1}

\* ------------------------------------------------------- program constants
maxRetries == 3
requestTimeoutMs == 5000
BackoffBaseMs == 1000
MinuteMs == 60000
\* Granularity with which the environment advances the wall clock.
ClockStep == MinuteMs \div 2
SERVICE_UNAVAILABLE == 503
INTERNAL_SERVER_ERROR == 500
\* Nest answers a @Post() handler that returns normally with 201.
PostCreated == 201
\* 83.123456, the hard-coded rate of the test-save endpoint.
TestRate == 831234560

\* ------------------------------------------------------------ upstream data
Num(c, v) == [currency |-> c, type |-> "number", value |-> v]
Str(c) == [currency |-> c, type |-> "string", value |-> 0]
NaN(c) == [currency |-> c, type |-> "NaN", value |-> 0]

Body(d, hr, rs) == [isObject |-> TRUE, hasDate |-> d, hasRates |-> hr, rates |-> rs]

\* Bodies the upstream may answer with ({date, rates:{symbol:number}} or not).
PayloadA == Body(TRUE, TRUE, <<Num("INR", 831234564), Num("EUR", 9200000)>>)
PayloadB == Body(TRUE, TRUE, <<Num("EUR", 9300006), Num("INR", 840000000)>>)
PayloadEmpty == Body(TRUE, TRUE, <<>>)
PayloadNoDate == Body(FALSE, TRUE, <<Num("INR", 831234564)>>)
PayloadNoRates == Body(TRUE, FALSE, <<>>)
PayloadBadRate == Body(TRUE, TRUE, <<Num("INR", 831234564), Str("EUR")>>)
PayloadNaNRate == Body(TRUE, TRUE, <<NaN("INR"), Num("EUR", 9200000)>>)
PayloadNull == [isObject |-> FALSE, hasDate |-> FALSE, hasRates |-> FALSE, rates |-> <<>>]

Payloads ==
    {PayloadA, PayloadB, PayloadEmpty, PayloadNoDate, PayloadNoRates,
     PayloadBadRate, PayloadNaNRate, PayloadNull}

\* What one HTTP attempt ends with before the timeout pipe is applied.
NetworkError == [err |-> "network", data |-> PayloadNull]
TimeoutError == [err |-> "timeout", data |-> PayloadNull]
Answer(d) == [err |-> "none", data |-> d]
NoAttempt == [err |-> "unsent", data |-> PayloadNull]

\* ------------------------------------------------------------------- state
VARIABLES
    clock,            \* wall clock, ms since epoch
    ticks,            \* number of environment clock ticks so far
    store,            \* rows of exchange_rates
    nextId,           \* the table's id sequence
    hostAlive,        \* FALSE once an error escaped a cron handler
    ops,              \* operations started so far
    schedFailures,    \* scheduled cycles that ended in a caught error
    pc,               \* position of each context
    kind,             \* "manual" | "sched" | "save" | "none"
    attempt,          \* fetchLatest: loop variable
    sentAt,           \* fetchLatest: when the pending request was sent
    wakeAt,           \* sleep: when the pending timer fires
    resp,             \* outcome of the attempt that has just ended
    nreq,             \* HTTP requests issued by the current fetchLatest call
    nfail,            \* attempts of the current call that failed
    delays,           \* delays slept by the current call, in order
    response,         \* fetchAndSaveRates: what fetchLatest returned
    now,              \* fetchedAt of the operation
    fetchedAtMinute,  \* dedup window of the operation
    idx,              \* position in Object.entries(response.rates)
    attempted,        \* positions for which the existence check was issued
    wrote,            \* rows saved by the operation
    raised,           \* what fetchAndSaveRates / saveRate threw, if anything
    outcome,          \* how the operation ended at its boundary
    apiKey,           \* process.env.API_KEY as read by ApiKeyGuard
    answer,           \* what the last read of the service returned or threw
    reply             \* how the last HTTP request got through router and guard

vars == <<clock, ticks, store, nextId, hostAlive, ops, schedFailures, pc, kind,
          attempt, sentAt, wakeAt, resp, nreq, nfail, delays, response, now,
          fetchedAtMinute, idx, attempted, wrote, raised, outcome,
          apiKey, answer, reply>>

fetchVars == <<attempt, sentAt, wakeAt, resp, nreq, nfail, delays>>
loopVars == <<response, now, fetchedAtMinute, idx, attempted, wrote>>
dbVars == <<store, nextId>>
readVars == <<apiKey, answer, reply>>

\* ----------------------------------------------------------- pure helpers
\* Number(x.toFixed(6)) on a value counted in 10^-7.
ToFixed6(x) == ((x + 5) \div 10) * 10

\* Math.floor(now.getTime() / 60_000) computed on seconds.
MinuteOfSeconds(t) == t \div 1000

\* Math.floor(now.getTime() / 60000)
MinuteOf(t) == t \div MinuteMs

NoSnapshot == [kind |-> "none", rates |-> <<>>]
Undefined == [kind |-> "undefined", rates |-> <<>>]
Invalid == [kind |-> "invalid", rates |-> <<>>]

\* validateResponse without the typeof / isNaN test of each rate.
validateResponseNoRateCheck(data) ==
    IF ~data.isObject THEN Invalid
    ELSE IF ~data.hasDate \/ ~data.hasRates THEN Invalid
    ELSE [kind |-> "snapshot",
          rates |-> [i \in 1..Len(data.rates) |->
                        [currency |-> data.rates[i].currency,
                         rate |-> ToFixed6(data.rates[i].value)]]]

\* validateResponse treating an empty rates mapping as missing.
validateResponseRejectsEmpty(data) ==
    IF ~data.isObject THEN Invalid
    ELSE IF ~data.hasDate \/ ~data.hasRates \/ Len(data.rates) = 0 THEN Invalid
    ELSE IF \E i \in 1..Len(data.rates) : data.rates[i].type # "number" THEN Invalid
    ELSE [kind |-> "snapshot",
          rates |-> [i \in 1..Len(data.rates) |->
                        [currency |-> data.rates[i].currency,
                         rate |-> ToFixed6(data.rates[i].value)]]]

\* FrankfurterService.validateResponse: Invalid stands for the thrown Error.
validateResponse(data) ==
    IF ~data.isObject THEN Invalid
    ELSE IF ~data.hasDate \/ ~data.hasRates THEN Invalid
    ELSE IF \E i \in 1..Len(data.rates) : data.rates[i].type # "number" THEN Invalid
    ELSE [kind |-> "snapshot",
          rates |-> [i \in 1..Len(data.rates) |->
                        [currency |-> data.rates[i].currency,
                         rate |-> ToFixed6(data.rates[i].value)]]]

\* rxjs timeout(requestTimeoutMs) on the response stream.
TimeoutPipe(elapsed, o) == IF elapsed >= requestTimeoutMs THEN TimeoutError ELSE o

\* The try block of one attempt: the snapshot returned, or Invalid when the
\* request or the validation threw.
AttemptResult(o) == IF o.err # "none" THEN Invalid ELSE validateResponse(o.data)

\* The last attempt recognised one attempt early.
isLastAttemptEarly(a) == a = maxRetries - 1

\* The loop condition with < for <=.
loopContinuesStrict(a) == a < maxRetries

\* for (let attempt = 1; attempt <= this.maxRetries; attempt++)
loopContinues(a) == a <= maxRetries

isLastAttempt(a) == a = maxRetries

\* Math.pow(2, attempt) * 1000: the exponent off by one.
delayMsOffByOne(a) == (2 ^ a) * BackoffBaseMs

\* Math.pow(2, attempt - 1) * 1000
delayMs(a) == (2 ^ (a - 1)) * BackoffBaseMs

\* An existence check that leaves fetchedAtMinute out of the where clause.
findOneAnyMinute(rows, b, t, m) ==
    \E r \in rows : r.baseCurrency = b /\ r.targetCurrency = t

\* findOne that never finds a row.
findOneNothing(rows, b, t, m) == FALSE

\* exchangeRateRepo.findOne({where: {baseCurrency, targetCurrency, fetchedAtMinute}})
findOne(rows, b, t, m) ==
    \E r \in rows : r.baseCurrency = b /\ r.targetCurrency = t /\ r.fetchedAtMinute = m

\* A unique index on (baseCurrency, fetchedAtMinute) only.
UniqueWithoutTarget(rows, b, t, m) ==
    \E r \in rows : r.baseCurrency = b /\ r.fetchedAtMinute = m

\* The table without its unique index.
NoUniqueIndex(rows, b, t, m) == FALSE

\* @Unique(['baseCurrency', 'targetCurrency', 'fetchedAtMinute'])
UniqueViolation(rows, b, t, m) ==
    \E r \in rows : r.baseCurrency = b /\ r.targetCurrency = t /\ r.fetchedAtMinute = m

\* A row stamped with the date of the upstream snapshot, not with new Date().
RowDatedByUpstream(id, b, t, rate, at, m) ==
    [id |-> id, baseCurrency |-> b, targetCurrency |-> t, rate |-> rate,
     fetchedAt |-> 0, fetchedAtMinute |-> m]

Row(id, b, t, rate, at, m) ==
    [id |-> id, baseCurrency |-> b, targetCurrency |-> t, rate |-> rate,
     fetchedAt |-> at, fetchedAtMinute |-> m]

\* save() as an upsert keyed on the pair: the pair's older rows are replaced.
repoSaveLatestOnly(rows, row) ==
    {r \in rows : ~(/\ r.baseCurrency = row.baseCurrency
                     /\ r.targetCurrency = row.targetCurrency)} \cup {row}

\* exchangeRateRepo.save({...}) of an entity without id: an INSERT.
repoSave(rows, row) == rows \cup {row}

\* ------------------------------------------------------------- boundaries
NoOutcome == [result |-> "none", status |-> 0]

\* CurrencyController.fetchRates: try { await fetchAndSaveRates } catch
fetchRates(err) ==
    IF err = "none" THEN [result |-> "message", status |-> PostCreated]
    ELSE IF err = "HttpException" THEN [result |-> "exception", status |-> SERVICE_UNAVAILABLE]
    ELSE [result |-> "exception", status |-> INTERNAL_SERVER_ERROR]

\* handleAutomaticFetch without its catch block.
handleAutomaticFetchNoCatch(err) ==
    IF err = "none" THEN [result |-> "completed", status |-> 0]
    ELSE [result |-> "escaped", status |-> 0]

\* SchedularService.handleAutomaticFetch: try { ... } catch { log }
handleAutomaticFetch(err) ==
    IF err = "none" THEN [result |-> "completed", status |-> 0]
    ELSE [result |-> "logged", status |-> 0]

\* CurrencyController.testSave: no handler of its own
testSave(err) ==
    IF err = "none" THEN [result |-> "message", status |-> PostCreated]
    ELSE [result |-> "exception", status |-> INTERNAL_SERVER_ERROR]

Boundary(k, err) ==
    IF k = "manual" THEN fetchRates(err)
    ELSE IF k = "sched" THEN handleAutomaticFetch(err)
    ELSE testSave(err)

\* An error that leaves a cron handler is an unhandled rejection.
Escapes(k, err) == k = "sched" /\ handleAutomaticFetch(err).result = "escaped"

\* ------------------------------------------------------- requests, answers
\* A header or query parameter that is not there, an unset environment variable.
Absent == "undefined"
\* The value of API_KEY in a configured deployment, and some other key.
Secret == "s3cret"
Wrong == "wrong"

\* An Express request: method, path, whether the URL carries a query string,
\* the x-api-key header and the query parameters the handlers read.
Request(m, path, search, header, key, base, target, period) ==
    [method |-> m, path |-> path, search |-> search, xApiKey |-> header,
     api_key |-> key, base |-> base, target |-> target, period |-> period]

NoRequest == Request("", "", FALSE, Absent, Absent, "", "", "")

\* Record<string, number> with no entry.
NoRates == [t \in {} |-> 0]

NoAnswer ==
    [op |-> "none", base |-> "", target |-> "", period |-> "", since |-> 0,
     at |-> 0, status |-> 0, rates |-> NoRates, value |-> 0, rows |-> {}]

NoReply == [req |-> NoRequest, stage |-> "none", status |-> 0, body |-> 0]

\* ------------------------------------------------------------------- Init
Init ==
    /\ clock = 0
    /\ ticks = 0
    /\ store = {}
    /\ nextId = 1
    /\ hostAlive = TRUE
    /\ ops = 0
    /\ schedFailures = 0
    /\ pc = [p \in Procs |-> "idle"]
    /\ kind = [p \in Procs |-> "none"]
    /\ attempt = [p \in Procs |-> 0]
    /\ sentAt = [p \in Procs |-> 0]
    /\ wakeAt = [p \in Procs |-> 0]
    /\ resp = [p \in Procs |-> NoAttempt]
    /\ nreq = [p \in Procs |-> 0]
    /\ nfail = [p \in Procs |-> 0]
    /\ delays = [p \in Procs |-> <<>>]
    /\ response = [p \in Procs |-> NoSnapshot]
    /\ now = [p \in Procs |-> 0]
    /\ fetchedAtMinute = [p \in Procs |-> 0]
    /\ idx = [p \in Procs |-> 0]
    /\ attempted = [p \in Procs |-> {}]
    /\ wrote = [p \in Procs |-> {}]
    /\ raised = [p \in Procs |-> "none"]
    /\ outcome = [p \in Procs |-> NoOutcome]
    /\ apiKey = Secret
    /\ answer = NoAnswer
    /\ reply = NoReply

\* ----------------------------------------------------------------- actions
\* A handler may start only while no ingestion cycle is in flight (a lock).
FreeWhileNoCycleRuns(p) ==
    /\ pc[p] \in {"idle", "done"}
    /\ \A q \in Procs :
          kind[q] \in {"manual", "sched"} => pc[q] \in {"idle", "done"}

Free(p) == pc[p] \in {"idle", "done"}

\* The operation of context p ends: its boundary turns err into the outcome.
End(p, err) ==
    /\ pc' = [pc EXCEPT ![p] = "done"]
    /\ raised' = [raised EXCEPT ![p] = err]
    /\ outcome' = [outcome EXCEPT ![p] = Boundary(kind[p], err)]
    /\ hostAlive' = (hostAlive /\ ~Escapes(kind[p], err))
    /\ schedFailures' = IF kind[p] = "sched" /\ err # "none"
                        THEN schedFailures + 1 ELSE schedFailures

Continue(p, next) ==
    /\ pc' = [pc EXCEPT ![p] = next]
    /\ UNCHANGED <<raised, outcome, hostAlive, schedFailures>>

\* A context starts fetchAndSaveRates('USD'): fetchLatest enters its loop.
StartCycle(p, k) ==
    /\ hostAlive
    /\ Free(p)
    /\ ops < MaxOps
    /\ ops' = ops + 1
    /\ kind' = [kind EXCEPT ![p] = k]
    /\ attempt' = [attempt EXCEPT ![p] = 1]
    /\ pc' = [pc EXCEPT ![p] = "request"]
    /\ sentAt' = [sentAt EXCEPT ![p] = 0]
    /\ wakeAt' = [wakeAt EXCEPT ![p] = 0]
    /\ resp' = [resp EXCEPT ![p] = NoAttempt]
    /\ nreq' = [nreq EXCEPT ![p] = 0]
    /\ nfail' = [nfail EXCEPT ![p] = 0]
    /\ delays' = [delays EXCEPT ![p] = <<>>]
    /\ response' = [response EXCEPT ![p] = NoSnapshot]
    /\ now' = [now EXCEPT ![p] = 0]
    /\ fetchedAtMinute' = [fetchedAtMinute EXCEPT ![p] = 0]
    /\ idx' = [idx EXCEPT ![p] = 0]
    /\ attempted' = [attempted EXCEPT ![p] = {}]
    /\ wrote' = [wrote EXCEPT ![p] = {}]
    /\ raised' = [raised EXCEPT ![p] = "none"]
    /\ outcome' = [outcome EXCEPT ![p] = NoOutcome]
    /\ UNCHANGED <<clock, ticks, store, nextId, hostAlive, schedFailures>>
    /\ UNCHANGED readVars

\* POST /rates/fetch
PostFetch(p) == p \in HttpContexts /\ StartCycle(p, "manual")

\* @Cron(EVERY_3_HOURS) fires; it does not wait for a running cycle.
CronTick(p) == StartCycle(p, "sched")

\* POST /rates/test-save: saveRate('USD', 'INR', 83.123456) up to its findOne.
PostTestSave(p) ==
    /\ p \in HttpContexts
    /\ hostAlive
    /\ Free(p)
    /\ ops < MaxOps
    /\ ops' = ops + 1
    /\ kind' = [kind EXCEPT ![p] = "save"]
    /\ pc' = [pc EXCEPT ![p] = "findOne"]
    /\ now' = [now EXCEPT ![p] = clock]
    /\ fetchedAtMinute' = [fetchedAtMinute EXCEPT ![p] = MinuteOf(clock)]
    /\ attempt' = [attempt EXCEPT ![p] = 0]
    /\ sentAt' = [sentAt EXCEPT ![p] = 0]
    /\ wakeAt' = [wakeAt EXCEPT ![p] = 0]
    /\ resp' = [resp EXCEPT ![p] = NoAttempt]
    /\ nreq' = [nreq EXCEPT ![p] = 0]
    /\ nfail' = [nfail EXCEPT ![p] = 0]
    /\ delays' = [delays EXCEPT ![p] = <<>>]
    /\ response' = [response EXCEPT ![p] = NoSnapshot]
    /\ idx' = [idx EXCEPT ![p] = 1]
    /\ attempted' = [attempted EXCEPT ![p] = {}]
    /\ wrote' = [wrote EXCEPT ![p] = {}]
    /\ raised' = [raised EXCEPT ![p] = "none"]
    /\ outcome' = [outcome EXCEPT ![p] = NoOutcome]
    /\ UNCHANGED <<clock, ticks, store, nextId, hostAlive, schedFailures>>
    /\ UNCHANGED readVars

\* httpService.get(...) of one attempt is sent.
HttpGet(p) ==
    /\ hostAlive
    /\ pc[p] = "request"
    /\ sentAt' = [sentAt EXCEPT ![p] = clock]
    /\ nreq' = [nreq EXCEPT ![p] = @ + 1]
    /\ Continue(p, "waiting")
    /\ UNCHANGED <<clock, ticks, ops, kind, attempt, wakeAt, resp, nfail, delays>>
    /\ UNCHANGED loopVars
    /\ UNCHANGED dbVars
    /\ UNCHANGED readVars

\* The attempt of context p ends with o at time t: the rest of the try block,
\* the catch block, and, on success, fetchAndSaveRates up to its first findOne.
AttemptEnds(p, o) ==
    LET r == AttemptResult(o) IN
    /\ resp' = [resp EXCEPT ![p] = o]
    /\ IF r.kind = "snapshot"
       THEN /\ response' = [response EXCEPT ![p] = r]
            /\ now' = [now EXCEPT ![p] = clock]
            /\ fetchedAtMinute' = [fetchedAtMinute EXCEPT ![p] = MinuteOf(clock)]
            /\ IF Len(r.rates) = 0
               THEN /\ End(p, "none")
                    /\ idx' = idx
               ELSE /\ Continue(p, "findOne")
                    /\ idx' = [idx EXCEPT ![p] = 1]
            /\ UNCHANGED <<nfail, delays, wakeAt>>
       ELSE /\ nfail' = [nfail EXCEPT ![p] = @ + 1]
            /\ IF isLastAttempt(attempt[p])
               THEN /\ End(p, "HttpException")
                    /\ UNCHANGED <<delays, wakeAt>>
               ELSE /\ Continue(p, "sleep")
                    /\ delays' = [delays EXCEPT ![p] = Append(@, delayMs(attempt[p]))]
                    /\ wakeAt' = [wakeAt EXCEPT ![p] = clock + delayMs(attempt[p])]
            /\ UNCHANGED <<response, now, fetchedAtMinute, idx>>
    /\ sentAt' = [sentAt EXCEPT ![p] = 0]
    /\ UNCHANGED <<clock, ticks, ops, kind, attempt, nreq, attempted, wrote>>
    /\ UNCHANGED dbVars
    /\ UNCHANGED readVars

\* The pending request ends: an answer or a connection error, or, once
\* requestTimeoutMs have passed, the timeout.
Respond(p, o) ==
    /\ hostAlive
    /\ pc[p] = "waiting"
    /\ AttemptEnds(p, TimeoutPipe(clock - sentAt[p], o))

\* sleep(delayMs) is over: attempt++ and the loop condition.
Wake(p) ==
    /\ hostAlive
    /\ pc[p] = "sleep"
    /\ clock >= wakeAt[p]
    /\ attempt' = [attempt EXCEPT ![p] = @ + 1]
    /\ IF loopContinues(attempt[p] + 1)
       THEN /\ Continue(p, "request")
            /\ response' = response
       ELSE /\ response' = [response EXCEPT ![p] = Undefined]
            /\ End(p, "none")
    /\ wakeAt' = [wakeAt EXCEPT ![p] = 0]
    /\ resp' = [resp EXCEPT ![p] = NoAttempt]
    /\ UNCHANGED <<clock, ticks, ops, kind, sentAt, nreq, nfail, delays,
                   now, fetchedAtMinute, idx, attempted, wrote>>
    /\ UNCHANGED dbVars
    /\ UNCHANGED readVars

\* The (target, rate) pair the context is working on.
Pair(p) ==
    IF kind[p] = "save"
    THEN [currency |-> "INR", rate |-> TestRate]
    ELSE [currency |-> response[p].rates[idx[p]].currency,
          rate |-> ToFixed6(response[p].rates[idx[p]].rate)]

\* The loop over Object.entries(response.rates) stopping one entry early.
LastPairOneEarly(p) == kind[p] = "save" \/ idx[p] + 1 >= Len(response[p].rates)

LastPair(p) == kind[p] = "save" \/ idx[p] >= Len(response[p].rates)

\* After one pair: the next pair of the loop, or the operation returns.
Advance(p) ==
    IF LastPair(p)
    THEN /\ End(p, "none")
         /\ idx' = idx
    ELSE /\ Continue(p, "findOne")
         /\ idx' = [idx EXCEPT ![p] = @ + 1]

\* The minute computed anew from the wall clock at each repository call.
dedupMinuteAtCall(p) == MinuteOf(clock)

\* The const fetchedAtMinute of the running operation, computed once before
\* its loop: the window findOne and save are given.
dedupMinute(p) == fetchedAtMinute[p]

\* The existence check of the current pair returns, and if (!existing).
FindOne(p) ==
    /\ hostAlive
    /\ pc[p] = "findOne"
    /\ attempted' = [attempted EXCEPT ![p] = @ \cup {idx[p]}]
    /\ IF findOne(store, "USD", Pair(p).currency, dedupMinute(p))
       THEN Advance(p)
       ELSE /\ Continue(p, "save")
            /\ idx' = idx
    /\ UNCHANGED <<clock, ticks, ops, kind, response, now, fetchedAtMinute, wrote>>
    /\ UNCHANGED fetchVars
    /\ UNCHANGED dbVars
    /\ UNCHANGED readVars

\* exchangeRateRepo.save of the current pair returns or throws.
Save(p) ==
    /\ hostAlive
    /\ pc[p] = "save"
    /\ nextId' = nextId + 1
    /\ IF UniqueViolation(store, "USD", Pair(p).currency, dedupMinute(p))
       THEN /\ End(p, "QueryFailedError")
            /\ UNCHANGED <<store, wrote, idx>>
       ELSE LET row == Row(nextId, "USD", Pair(p).currency, Pair(p).rate,
                           now[p], dedupMinute(p)) IN
            /\ store' = repoSave(store, row)
            /\ wrote' = [wrote EXCEPT ![p] = @ \cup {row}]
            /\ Advance(p)
    /\ UNCHANGED <<clock, ticks, ops, kind, response, now, fetchedAtMinute, attempted>>
    /\ UNCHANGED fetchVars
    /\ UNCHANGED readVars

\* Time passes.
Tick ==
    /\ ticks < MaxTicks
    /\ ticks' = ticks + 1
    /\ clock' = clock + ClockStep
    /\ UNCHANGED <<store, nextId, hostAlive, ops, schedFailures, pc, kind, raised, outcome>>
    /\ UNCHANGED fetchVars
    /\ UNCHANGED loopVars
    /\ UNCHANGED readVars

Next ==
    \/ \E p \in Procs : PostFetch(p)
    \/ \E p \in Procs : CronTick(p)
    \/ \E p \in Procs : PostTestSave(p)
    \/ \E p \in Procs : HttpGet(p)
    \/ \E p \in Procs : \E o \in {NetworkError} \cup {Answer(d) : d \in Payloads} : Respond(p, o)
    \/ \E p \in Procs : Wake(p)
    \/ \E p \in Procs : FindOne(p)
    \/ \E p \in Procs : Save(p)
    \/ Tick

Spec == Init /\ [][Next]_vars

TypeOK ==
    /\ clock \in Nat
    /\ pc \in [Procs -> {"idle", "request", "waiting", "sleep", "findOne", "save", "done"}]
    /\ kind \in [Procs -> {"none", "manual", "sched", "save"}]

\* ------------------------------------------- operations one after another
\* No other handler is in flight: the operation about to start runs alone.
Alone(p) == \A q \in Procs \ {p} : Free(q)

\* The same service driven by triggers that never overlap: an operation
\* starts only after the previous one has returned.
NextSeq ==
    \/ \E p \in Procs : Alone(p) /\ PostFetch(p)
    \/ \E p \in Procs : Alone(p) /\ CronTick(p)
    \/ \E p \in Procs : Alone(p) /\ PostTestSave(p)
    \/ \E p \in Procs : HttpGet(p)
    \/ \E p \in Procs : \E o \in {NetworkError} \cup {Answer(d) : d \in Payloads} : Respond(p, o)
    \/ \E p \in Procs : Wake(p)
    \/ \E p \in Procs : FindOne(p)
    \/ \E p \in Procs : Save(p)
    \/ Tick

SpecSeq == Init /\ [][NextSeq]_vars

\* ------------------------------------------------------- shared vocabulary
Cycle(p) == kind[p] \in {"manual", "sched"}

\* Rows of one dedup window.
RowsOf(b, t, m) ==
    {r \in store : r.baseCurrency = b /\ r.targetCurrency = t /\ r.fetchedAtMinute = m}

\* The pair at position i of the operation of context p.
PairAt(p, i) ==
    IF kind[p] = "save"
    THEN [currency |-> "INR", rate |-> TestRate]
    ELSE [currency |-> response[p].rates[i].currency,
          rate |-> ToFixed6(response[p].rates[i].rate)]

\* Positions whose insertIfAbsent call has returned or thrown.
FinishedCalls(p) ==
    {i \in attempted[p] : pc[p] = "done" \/ i < idx[p]}

\* fetchLatest of the cycle of context p has returned or thrown.
FetchEnded(p) == Cycle(p) /\ pc[p] \in {"findOne", "save", "done"}

\* --------------------------------------------------------------- read side
HourMs == 60 * MinuteMs
NOT_FOUND == 404
UNAUTHORIZED == 401
\* Nest answers a @Get() handler that returns normally with 200.
GetOk == 200
\* The rate 1.0 counted in 10^-7.
RateOne == 10000000

\* row.rate_rate read by parseInt: the fraction is dropped.
RawRateWhole(r) == (r.rate \div RateOne) * RateOne

\* row.rate_rate: the decimal(15, 6) column as the driver hands it over, read
\* by parseFloat.
RawRate(r) == ((r.rate + 5) \div 10) * 10

\* .where('rate.baseCurrency = :base') with no condition on the base.
LatestQueryAnyBase(rows, base) == rows

\* .where('rate.baseCurrency = :base').andWhere('rate.fetchedAt IS NOT NULL')
LatestQuery(rows, base) == {r \in rows : r.baseCurrency = base}

\* PARTITION BY rate.targetCurrency
PartitionOf(rows, base, t) ==
    {r \in LatestQuery(rows, base) : r.targetCurrency = t}

\* ORDER BY rate.fetchedAt ASC in place of DESC.
FirstRankedAsc(part) == {r \in part : \A o \in part : r.fetchedAt <= o.fetchedAt}

\* ORDER BY rate.fetchedAt DESC: the rows ROW_NUMBER() may number 1.
FirstRanked(part) == {r \in part : \A o \in part : r.fetchedAt >= o.fetchedAt}

\* latestRates.filter(row => row.rn === '1'): every outcome the ranking allows,
\* as the row kept for each target.
newestRates(rows, base) ==
    LET ts == {r.targetCurrency : r \in LatestQuery(rows, base)} IN
    {f \in [ts -> rows] :
        \A t \in ts : f[t] \in FirstRanked(PartitionOf(rows, base, t))}

\* CurrencyService.getLatestRates from the filtered rows on.
getLatestRates(newest) ==
    IF DOMAIN newest = {}
    THEN [status |-> NOT_FOUND, rates |-> NoRates]
    ELSE [status |-> 0, rates |-> [t \in DOMAIN newest |-> RawRate(newest[t])]]

\* getLatestTimestamp with MIN in place of MAX.
getLatestTimestampMin(rows, base, t) ==
    LET S == {r.fetchedAt : r \in {x \in rows : x.baseCurrency = base}} IN
    IF S = {} THEN t ELSE CHOOSE m \in S : \A o \in S : m <= o

\* CurrencyService.getLatestTimestamp at wall-clock time t:
\* result?.max || new Date().toISOString()
getLatestTimestamp(rows, base, t) ==
    LET S == {r.fetchedAt : r \in {x \in rows : x.baseCurrency = base}} IN
    IF S = {} THEN t ELSE CHOOSE m \in S : \A o \in S : m >= o

\* CurrencyService.getLatestRatesWithMetadata, then the try/catch of the
\* GET /rates/latest handler: rates is what await this.getLatestRates(base)
\* gave (a NotFoundException ends the handler there), rows the table at the
\* time of the second await, this.getLatestTimestamp(base).
getLatestRatesWithMetadata(rates, rows, base, t) ==
    IF rates.status = NOT_FOUND
    THEN [status |-> NOT_FOUND, rates |-> NoRates, timestamp |-> 0]
    ELSE [status |-> GetOk, rates |-> rates.rates,
          timestamp |-> getLatestTimestamp(rows, base, t)]

Periods == {"1h", "6h", "12h", "24h", "7d"}
\* @IsIn([...]) of AverageRatesDto.base and .target
Currencies == {"USD", "EUR", "GBP", "JPY", "INR", "CAD"}
BAD_REQUEST == 400

\* CurrencyService.getStartDateFromPeriod at wall-clock time t
getStartDateFromPeriod(period, t) ==
    CASE period = "1h" -> t - 60 * 60 * 1000
      [] period = "6h" -> t - 6 * 60 * 60 * 1000
      [] period = "12h" -> t - 12 * 60 * 60 * 1000
      [] period = "24h" -> t - 24 * 60 * 60 * 1000
      [] period = "7d" -> t - 7 * 24 * 60 * 60 * 1000
      [] OTHER -> t - 24 * 60 * 60 * 1000

\* .andWhere('rate.fetchedAt >= :startDate') with > in place of >=.
AvgQueryExclusive(rows, base, target, startDate) ==
    {r \in rows : /\ r.baseCurrency = base
                  /\ r.targetCurrency = target
                  /\ r.fetchedAt > startDate}

\* The rows the AVG query of getAverageRate ranges over.
AvgQuery(rows, base, target, startDate) ==
    {r \in rows : /\ r.baseCurrency = base
                  /\ r.targetCurrency = target
                  /\ r.fetchedAt >= startDate}

RECURSIVE SumRates(_)
SumRates(S) ==
    IF S = {} THEN 0
    ELSE LET r == CHOOSE x \in S : TRUE IN RawRate(r) + SumRates(S \ {r})

\* Digits the quotient keeps beyond those of the rate column: an average
\* counts 10^-7 / AvgScale.
AvgScale == 10

\* AVG(rate.rate) read by parseFloat: the quotient rounded to the last digit
\* kept.
AVG(S) ==
    LET n == Cardinality(S) IN (2 * AvgScale * SumRates(S) + n) \div (2 * n)

\* CurrencyService.getAverageRate at wall-clock time t
getAverageRate(rows, base, target, period, t) ==
    LET startDate == getStartDateFromPeriod(period, t)
        sel == AvgQuery(rows, base, target, startDate)
    IN  IF sel = {}
        THEN [status |-> NOT_FOUND, value |-> 0, since |-> startDate]
        ELSE [status |-> 0, value |-> AVG(sel), since |-> startDate]

\* --------------------------------------------------------- router and guard
\* The handlers of AppController and CurrencyController.
Routes ==
    {<<"GET", "/">>, <<"GET", "/health">>, <<"POST", "/rates/test-save">>,
     <<"POST", "/rates/fetch">>, <<"GET", "/rates/latest">>,
     <<"GET", "/rates/health">>}

\* request.url: the path, and the query string when there is one.
Url(request) ==
    IF request.search THEN <<request.path, "?">> ELSE <<request.path>>

\* JavaScript truthiness of a header, parameter or environment value.
Truthy(v) == v \notin {Absent, ""}

\* canActivate without if (!this.apiKey) throw.
canActivateNoKeyCheck(request, configured) ==
    IF Url(request) = <<"/health">> THEN TRUE
    ELSE LET key == IF Truthy(request.xApiKey)
                    THEN request.xApiKey ELSE request.api_key
         IN  key = configured

\* ApiKeyGuard.canActivate; FALSE stands for the UnauthorizedException.
canActivate(request, configured) ==
    IF Url(request) = <<"/health">> THEN TRUE
    ELSE LET key == IF Truthy(request.xApiKey)
                    THEN request.xApiKey ELSE request.api_key
         IN  IF ~Truthy(configured) THEN FALSE
             ELSE key = configured

\* A request goes through the router, then the guard: where it ends if not
\* in a handler.
Pipeline(request, configured) ==
    IF <<request.method, request.path>> \notin Routes
    THEN [stage |-> "NotFound", status |-> NOT_FOUND]
    ELSE IF ~canActivate(request, configured)
    THEN [stage |-> "Unauthorized", status |-> UNAUTHORIZED]
    ELSE [stage |-> "handler", status |-> 0]

\* ----------------------------------------------- reads of a given table
\* No ingestion is running.
NoOperation ==
    /\ ticks = 0
    /\ hostAlive = TRUE
    /\ ops = 0
    /\ schedFailures = 0
    /\ pc = [p \in Procs |-> "idle"]
    /\ kind = [p \in Procs |-> "none"]
    /\ attempt = [p \in Procs |-> 0]
    /\ sentAt = [p \in Procs |-> 0]
    /\ wakeAt = [p \in Procs |-> 0]
    /\ resp = [p \in Procs |-> NoAttempt]
    /\ nreq = [p \in Procs |-> 0]
    /\ nfail = [p \in Procs |-> 0]
    /\ delays = [p \in Procs |-> <<>>]
    /\ response = [p \in Procs |-> NoSnapshot]
    /\ now = [p \in Procs |-> 0]
    /\ fetchedAtMinute = [p \in Procs |-> 0]
    /\ idx = [p \in Procs |-> 0]
    /\ attempted = [p \in Procs |-> {}]
    /\ wrote = [p \in Procs |-> {}]
    /\ raised = [p \in Procs |-> "none"]
    /\ outcome = [p \in Procs |-> NoOutcome]

ingestVars ==
    <<ticks, hostAlive, ops, schedFailures, pc, kind, raised, outcome,
      attempt, sentAt, wakeAt, resp, nreq, nfail, delays,
      response, now, fetchedAtMinute, idx, attempted, wrote>>

\* Wall-clock times at which the reads are made.
QueryNows == {HourMs, HourMs + MinuteMs}
QueryBases == {"USD", "EUR"}
QueryTargets == {"INR", "EUR"}

\* What past cycles may have written: (base, target, rate, fetchedAt).
QueryRows ==
    {<<"USD", "INR", k * RateOne, at>> : k \in 1..3, at \in {0, MinuteMs, HourMs}}
    \cup {<<"USD", "EUR", 9200000, at>> : at \in {0, HourMs}}
    \cup {<<"EUR", "INR", 2 * RateOne, MinuteMs>>}

InitQuery ==
    /\ clock \in QueryNows
    /\ store = {}
    /\ nextId = 1
    /\ apiKey = Secret
    /\ answer = NoAnswer
    /\ reply = NoReply
    /\ NoOperation

\* exchangeRateRepo.save of a row by some earlier operation, in the order of
\* the rows' fetchedAt; the unique index applies.
AddRow(q) ==
    /\ Cardinality(store) < MaxRows
    /\ q[4] <= clock
    /\ \A r \in store : r.fetchedAt <= q[4]
    /\ ~UniqueViolation(store, q[1], q[2], MinuteOf(q[4]))
    /\ store' = store \cup {Row(nextId, q[1], q[2], q[3], q[4], MinuteOf(q[4]))}
    /\ nextId' = nextId + 1
    /\ answer' = IF answer.op = "getLatest:rates" THEN answer ELSE NoAnswer
    /\ reply' = NoReply
    /\ UNCHANGED <<clock, apiKey>>
    /\ UNCHANGED ingestVars

Reads(a) ==
    /\ answer' = a
    /\ reply' = NoReply
    /\ UNCHANGED <<clock, apiKey>>
    /\ UNCHANGED dbVars
    /\ UNCHANGED ingestVars

\* currencyService.getLatestRates(base), the ranking numbering newest first.
CallGetLatestRates(base, newest) ==
    LET r == getLatestRates(newest) IN
    Reads([NoAnswer EXCEPT !.op = "getLatestRates", !.base = base, !.at = clock,
                           !.status = r.status, !.rates = r.rates])

\* currencyService.getLatestTimestamp(base)
CallGetLatestTimestamp(base) ==
    Reads([NoAnswer EXCEPT !.op = "getLatestTimestamp", !.base = base,
                           !.at = clock,
                           !.value = getLatestTimestamp(store, base, clock)])

\* GET /rates/latest?base=...: the handler of CurrencyController.getLatestRates
\* up to the end of the first await of getLatestRatesWithMetadata; with no row
\* for the base the NotFoundException ends the handler here.
GetLatest(base, newest) ==
    LET r == getLatestRates(newest) IN
    IF r.status = NOT_FOUND
    THEN Reads([NoAnswer EXCEPT !.op = "getLatest", !.base = base, !.at = clock,
                                !.status = NOT_FOUND])
    ELSE Reads([NoAnswer EXCEPT !.op = "getLatest:rates", !.base = base,
                                !.at = clock, !.rates = r.rates,
                                !.rows = {newest[t] : t \in DOMAIN newest}])

\* The rest of the handler: the second await, then the response. Rows saved
\* since the first await are in the table it reads.
GetLatestReturns ==
    /\ answer.op = "getLatest:rates"
    /\ LET r == getLatestRatesWithMetadata([status |-> 0, rates |-> answer.rates],
                                           store, answer.base, clock)
       IN  Reads([answer EXCEPT !.op = "getLatest", !.status = r.status,
                                !.value = r.timestamp])

\* currencyService.getAverageRate(base, target, period)
CallGetAverageRate(base, target, period) ==
    LET r == getAverageRate(store, base, target, period, clock) IN
    Reads([NoAnswer EXCEPT !.op = "getAverageRate", !.base = base,
                           !.target = target, !.period = period, !.at = clock,
                           !.since = r.since, !.status = r.status,
                           !.value = r.value])

\* GET /rates/average?base=...&target=INR&period=... with the API key in the
\* header.
RequestAverage(base, period) ==
    LET request == Request("GET", "/rates/average", TRUE, Secret, Absent,
                           base, "INR", period)
        p == Pipeline(request, apiKey)
    IN  /\ reply' = [req |-> request, stage |-> p.stage, status |-> p.status,
                     body |-> 0]
        /\ answer' = NoAnswer
        /\ UNCHANGED <<clock, apiKey>>
        /\ UNCHANGED dbVars
        /\ UNCHANGED ingestVars

NextQuery ==
    \/ \E q \in QueryRows : AddRow(q)
    \/ \E b \in QueryBases : \E f \in newestRates(store, b) : CallGetLatestRates(b, f)
    \/ \E b \in QueryBases : CallGetLatestTimestamp(b)
    \/ \E b \in QueryBases : \E f \in newestRates(store, b) : GetLatest(b, f)
    \/ GetLatestReturns
    \/ \E b \in QueryBases : \E t \in QueryTargets : \E p \in {"1h", "7d", "2w"} :
          CallGetAverageRate(b, t, p)
    \/ \E b \in {"USD", "US1"} : \E p \in Periods \cup {"2w"} : RequestAverage(b, p)

SpecQuery == InitQuery /\ [][NextQuery]_vars

\* ------------------------------------------- requests through the guard
\* The requests examined: any routed or unrouted path, with or without a
\* query string, each credential channel empty, right or wrong.
Requests ==
    {Request(mp[1], mp[2], s, h, k, "", "", "") :
        mp \in Routes \cup {<<"GET", "/rates/average">>},
        s \in BOOLEAN, h \in {Absent, Secret, Wrong}, k \in {Absent, Secret, Wrong}}

InitGuard ==
    /\ clock = 0
    /\ store = {}
    /\ nextId = 1
    /\ apiKey \in {Secret, Absent}
    /\ answer = NoAnswer
    /\ reply = NoReply
    /\ NoOperation

\* A request arrives: router, then ApiKeyGuard.
Arrives(request) ==
    LET p == Pipeline(request, apiKey) IN
    /\ request.api_key # Absent => request.search
    /\ reply' = [req |-> request, stage |-> p.stage, status |-> p.status,
                 body |-> 0]
    /\ UNCHANGED <<clock, apiKey, answer>>
    /\ UNCHANGED dbVars
    /\ UNCHANGED ingestVars

NextGuard == \E request \in Requests : Arrives(request)

SpecGuard == InitGuard /\ [][NextGuard]_vars

\* ---------------------------------------------------------------------- C1
\* C1: in every reachable state the store holds at most one row for each
\* (baseCurrency, targetCurrency, fetchedAtMinute) triple, whatever manual
\* triggers, cron cycles and saveRate calls interleave.
C1_AtMostOneRowPerWindow ==
    \A r1 \in store : \A r2 \in store :
        (/\ r1.baseCurrency = r2.baseCurrency
         /\ r1.targetCurrency = r2.targetCurrency
         /\ r1.fetchedAtMinute = r2.fetchedAtMinute) => r1 = r2

\* Two cycles of the same window have both passed the existence check of the
\* same target and one of them has already saved its row.
C1_Witness ==
    \E p \in Procs : \E q \in Procs :
        /\ p # q /\ Cycle(p) /\ Cycle(q)
        /\ fetchedAtMinute[p] = fetchedAtMinute[q]
        /\ pc[q] = "save"
        /\ \E r \in wrote[p] : r.targetCurrency = Pair(q).currency

\* ---------------------------------------------------------------------- C2
\* C2: insertIfAbsent is a silent no-op on an existing row: no operation ends
\* with an error raised by its check-then-save, also when two callers target
\* the same window concurrently, and a call that finds the row leaves the
\* store as it was.
C2_InsertIfAbsentNeverErrors ==
    \A p \in Procs : raised[p] # "QueryFailedError"

\* ---------------------------------------------------------------------- C3
\* C3: once an insertIfAbsent call for a (base, target, minute) triple has
\* finished, exactly one row exists for that triple, whatever rates the calls
\* for it carried and however they interleaved.
C3_ExactlyOneRowSurvives ==
    \A p \in Procs : \A i \in FinishedCalls(p) :
        Cardinality(RowsOf("USD", PairAt(p, i).currency, fetchedAtMinute[p])) = 1

\* Two finished calls for the same triple carried different rates.
C3_Witness ==
    \E p \in Procs : \E q \in Procs :
        /\ p # q /\ pc[p] = "done" /\ pc[q] = "done"
        /\ fetchedAtMinute[p] = fetchedAtMinute[q]
        /\ \E i \in FinishedCalls(p) : \E j \in FinishedCalls(q) :
              /\ PairAt(p, i).currency = PairAt(q, j).currency
              /\ PairAt(p, i).rate # PairAt(q, j).rate
              /\ Cardinality(RowsOf("USD", PairAt(p, i).currency, fetchedAtMinute[p])) = 1

\* ---------------------------------------------------------------------- C4
\* C4: per-pair isolation: a cycle that got a snapshot and has ended has
\* attempted insertIfAbsent for every pair of the snapshot, also when the
\* write of one pair failed.
C4_EveryPairAttempted ==
    \A p \in Procs :
        (Cycle(p) /\ pc[p] = "done" /\ response[p].kind = "snapshot")
            => attempted[p] = 1..Len(response[p].rates)

\* ---------------------------------------------------------------------- C5
\* C5: a cycle all of whose upstream attempts failed made exactly 3 attempts,
\* raised the 503 HttpException, wrote no row, and the manual trigger
\* answered 503.
C5_AllAttemptsFail ==
    \A p \in Procs :
        (Cycle(p) /\ pc[p] = "done" /\ nfail[p] = nreq[p])
            => /\ nreq[p] = 3
               /\ raised[p] = "HttpException"
               /\ wrote[p] = {} /\ attempted[p] = {}
               /\ (kind[p] = "manual" =>
                      outcome[p] = [result |-> "exception", status |-> 503])

\* A manual trigger ended after three failed attempts while the store already
\* held rows.
C5_Witness ==
    \E p \in Procs :
        /\ kind[p] = "manual" /\ pc[p] = "done"
        /\ nfail[p] = 3 /\ nreq[p] = 3
        /\ store # {}

\* ---------------------------------------------------------------------- C6
\* C6: when attempt k is the first to succeed, fetchLatest made exactly k
\* requests, slept 2^(i-1) seconds after the i-th failure, made no request and
\* no sleep after the success, and the cycle works on the snapshot of that
\* attempt: every row it writes is a pair of it, and when the cycle completes
\* every pair of it has a row in the cycle's window.
ExpectedDelays(n) == [i \in 1..n |-> (2 ^ (i - 1)) * 1000]

C7_BackoffOneTwoFour ==
    \A p \in Procs :
        (Cycle(p) /\ pc[p] = "done" /\ raised[p] = "HttpException")
            => delays[p] = <<1000, 2000, 4000>>

\* ---------------------------------------------------------------------- C8
\* C8: a fetchLatest call that has ended either returned a validated snapshot
\* (numeric rates) or threw the 503 HttpException, never both and never
\* neither; it never returned undefined, and the manual boundary reports the
\* failure as 503.
C8_SnapshotOrUnavailable ==
    \A p \in Procs :
        FetchEnded(p) =>
            /\ (response[p].kind = "snapshot") # (raised[p] = "HttpException")
            /\ response[p].kind \in {"snapshot", "none"}
            /\ response[p].kind = "none" =>
                  /\ raised[p] = "HttpException"
                  /\ kind[p] = "manual" => outcome[p].status = 503
            /\ response[p].kind = "snapshot" =>
                  \A i \in 1..Len(response[p].rates) : response[p].rates[i].rate \in Nat

\* One call has returned a snapshot and another has ended in the 503.
C8_Witness ==
    \E p \in Procs : \E q \in Procs :
        /\ FetchEnded(p) /\ response[p].kind = "snapshot" /\ nfail[p] > 0
        /\ FetchEnded(q) /\ raised[q] = "HttpException"

\* ---------------------------------------------------------------------- C9
\* The failures the attempt can meet: a network error, the timeout, or a body
\* without date, without rates or with a rate that is not a number.
AttemptFailure(o) ==
    \/ o.err \in {"network", "timeout"}
    \/ /\ o.err = "none"
       /\ \/ ~o.data.isObject
          \/ ~o.data.hasDate
          \/ ~o.data.hasRates
          \/ \E i \in 1..Len(o.data.rates) : o.data.rates[i].type # "number"

\* C9: every attempt that ends in a failure of any kind counts one attempt,
\* returns no snapshot, and is followed by the backoff sleep and a further
\* request when attempts remain, and by the 503 otherwise.
C9_FailuresHandledAlike ==
    [][\A p \in Procs :
          /\ (pc[p] = "waiting" /\ pc'[p] # "waiting" /\ AttemptFailure(resp'[p]))
                => /\ nfail'[p] = nfail[p] + 1
                   /\ response'[p].kind = "none"
                   /\ wrote'[p] = {}
                   /\ IF nreq[p] < 3
                      THEN pc'[p] = "sleep"
                      ELSE pc'[p] = "done" /\ raised'[p] = "HttpException"
          /\ (pc[p] = "sleep" /\ pc'[p] # "sleep")
                => /\ pc'[p] = "request"
                   /\ attempt'[p] = attempt[p] + 1
                   /\ nreq'[p] = nreq[p]
      ]_vars

\* One call sleeps after a timeout while another sleeps after a body with a
\* non-numeric rate.
C9_Witness ==
    \E p \in Procs : \E q \in Procs :
        /\ pc[p] = "sleep" /\ resp[p] = TimeoutError
        /\ pc[q] = "sleep" /\ resp[q] = Answer(PayloadBadRate)

\* --------------------------------------------------------------------- C10
\* C10: no error leaves handleAutomaticFetch: the host stays alive, a
\* scheduled cycle ends as completed or logged, and after a failed scheduled
\* cycle the next tick can start its cycle.
C10_SchedulerIsolatesErrors ==
    /\ hostAlive
    /\ \A p \in Procs :
          (kind[p] = "sched" /\ pc[p] = "done")
              => outcome[p].result \in {"completed", "logged"}
    /\ (schedFailures > 0 /\ ops < MaxOps /\ \E p \in Procs : Free(p))
          => ENABLED (\E p \in Procs : CronTick(p))

\* A scheduled cycle failed, and a later tick's cycle has sent its request.
C10_Witness ==
    /\ schedFailures > 0
    /\ \E p \in Procs : kind[p] = "sched" /\ pc[p] = "waiting"

\* --------------------------------------------------------------------- C11
\* Vocabulary of the read claims: the rows of one base, of one pair.
RowsOfBase(b) == {r \in store : r.baseCurrency = b}
RowsOfPair(b, t) == {r \in store : r.baseCurrency = b /\ r.targetCurrency = t}

\* C11: whatever the table holds, getLatestRates(base) has exactly one entry
\* for each target that has a row for base, none for any other, and the rate
\* of each entry is the rate of a row of that pair whose fetchedAt is at least
\* that of every other row of the pair.
C11_LatestPerTarget ==
    answer.op = "getLatestRates" =>
        /\ DOMAIN answer.rates = {r.targetCurrency : r \in RowsOfBase(answer.base)}
        /\ \A t \in DOMAIN answer.rates :
              \E r \in RowsOfPair(answer.base, t) :
                 /\ answer.rates[t] = r.rate
                 /\ \A o \in RowsOfPair(answer.base, t) : r.fetchedAt >= o.fetchedAt

\* getLatestRates answered for a base with two targets, one of which has an
\* older row with another rate.
C11_Witness ==
    /\ answer.op = "getLatestRates"
    /\ Cardinality(DOMAIN answer.rates) = 2
    /\ \E t \in DOMAIN answer.rates :
          \E o \in RowsOfPair(answer.base, t) : o.rate # answer.rates[t]

\* --------------------------------------------------------------------- C12
\* C12: GET /rates/latest for a base answers 404 Not Found exactly when the
\* table holds no row whose baseCurrency is that base.
C12_NotFoundIffNoRow ==
    answer.op = "getLatest" =>
        (answer.status = NOT_FOUND <=> RowsOfBase(answer.base) = {})

\* The latest rates of a base without rows were asked for while the table
\* holds rows of another base.
C12_Witness ==
    /\ answer.op = "getLatest"
    /\ answer.status = NOT_FOUND
    /\ store # {}

\* --------------------------------------------------------------------- C13
\* The rows of a pair observed at since or later.
InWindow(b, t, since) == {r \in RowsOfPair(b, t) : r.fetchedAt >= since}

\* C13: getAverageRate over the window that starts at since returns the
\* arithmetic mean of the rates of exactly the rows of that base and target
\* with fetchedAt >= since (the bound included), to the last digit an average
\* keeps; rows of other pairs and older rows do not count; it throws 404 Not
\* Found exactly when there is no such row; rates 1, 2 and 3 average to 2.
C13_AverageOverWindow ==
    answer.op = "getAverageRate" =>
        LET sel == InWindow(answer.base, answer.target, answer.since)
            n == Cardinality(sel)
            avg == answer.value
        IN  /\ answer.status = NOT_FOUND <=> sel = {}
            /\ sel # {} =>
                  /\ 2 * avg * n - n <= 2 * AvgScale * SumRates(sel)
                  /\ 2 * AvgScale * SumRates(sel) < 2 * avg * n + n
            /\ {r.rate : r \in sel} = {RateOne, 2 * RateOne, 3 * RateOne} /\ n = 3
                  => avg = 2 * RateOne * AvgScale

\* The average of three rows with rates 1, 2 and 3 was computed, one of the
\* rows lying exactly on the start of the window.
C13_Witness ==
    /\ answer.op = "getAverageRate"
    /\ answer.status # NOT_FOUND
    /\ LET sel == InWindow(answer.base, answer.target, answer.since) IN
          /\ {r.rate : r \in sel} = {RateOne, 2 * RateOne, 3 * RateOne}
          /\ Cardinality(sel) = 3
          /\ \E r \in sel : r.fetchedAt = answer.since
    /\ answer.value = 2 * RateOne * AvgScale

\* --------------------------------------------------------------------- C14
\* C14: GET /rates/average with a period among 1h, 6h, 12h, 24h and 7d
\* computes since = now - period, delegates to the average over that window
\* and answers with the numeric average, or with 404 when no row of the pair
\* falls in the window.
C14_AverageEndpoint ==
    /\ reply.req.method = "GET"
    /\ reply.req.path = "/rates/average"
    /\ reply.req.period \in Periods
    /\ canActivate(reply.req, apiKey)
    => LET since == getStartDateFromPeriod(reply.req.period, clock)
           sel == InWindow(reply.req.base, reply.req.target, since)
       IN  IF sel = {}
           THEN reply.status = NOT_FOUND
           ELSE reply.status = GetOk /\ reply.body = AVG(sel)

\* --------------------------------------------------------------------- C15
\* C15 as stated: whatever the table holds, getLatestTimestamp(base) returns
\* the greatest fetchedAt of the rows of that base, and never a value that is
\* not the fetchedAt of a stored row of that base.
C15_LatestTimestampIsStored ==
    answer.op = "getLatestTimestamp" =>
        /\ \E r \in RowsOfBase(answer.base) : r.fetchedAt = answer.value
        /\ \A r \in RowsOfBase(answer.base) : r.fetchedAt <= answer.value

\* C15 amended: when the table holds a row of the base, getLatestTimestamp
\* returns the greatest fetchedAt of the rows of that base, the fetchedAt of a
\* stored row; when it holds none, it returns the current time.
C15_LatestTimestampOrNow ==
    answer.op = "getLatestTimestamp" =>
        IF RowsOfBase(answer.base) = {}
        THEN answer.value = answer.at
        ELSE /\ \E r \in RowsOfBase(answer.base) : r.fetchedAt = answer.value
             /\ \A r \in RowsOfBase(answer.base) : r.fetchedAt <= answer.value

\* The latest timestamp of a base with rows of different times was asked for,
\* later than the newest of them.
C15_Witness ==
    /\ answer.op = "getLatestTimestamp"
    /\ \E r \in RowsOfBase(answer.base) : r.fetchedAt < answer.value
    /\ answer.value < answer.at

\* --------------------------------------------------------------------- C16
\* The request of the last reply reached the guard.
Guarded == reply.stage \in {"Unauthorized", "handler"}
Admitted == reply.stage = "handler"

\* C16: with a secret configured, a request to a routed endpoint other than
\* /health is admitted if and only if its X-API-Key header or its api_key
\* query parameter is the secret: the right secret in either channel admits
\* it whatever the other channel holds, and without it in both it is rejected.
C16_AdmittedIffSecretSupplied ==
    Guarded /\ Truthy(apiKey) /\ reply.req.path # "/health" =>
        (Admitted <=> (reply.req.xApiKey = apiKey \/ reply.req.api_key = apiKey))

\* --------------------------------------------------------------------- C17
\* C17 as stated: when no secret is configured the server refuses all
\* traffic: no request is admitted.
C17_NoRequestAdmittedUnconfigured ==
    Guarded /\ ~Truthy(apiKey) => ~Admitted

\* C17 amended: when no secret is configured, no request is admitted except
\* one whose URL is exactly /health; whatever key a request to another
\* endpoint supplies, it is rejected.
C17_FailClosedExceptHealth ==
    Guarded /\ ~Truthy(apiKey) => (Admitted <=> Url(reply.req) = <<"/health">>)

\* With no secret configured, a request that supplies a key was rejected.
C17_Witness ==
    /\ ~Truthy(apiKey)
    /\ reply.stage = "Unauthorized"
    /\ reply.req.path = "/rates/latest"
    /\ Truthy(reply.req.xApiKey)

\* --------------------------------------------------------------------- C18
\* C18: every request to GET /health is exempt from authentication, admitted
\* without any credential; no other endpoint, /rates/health included, is
\* exempt: a request to it that does not carry the secret is rejected.
C18_OnlyHealthExempt ==
    Guarded =>
        /\ reply.req.method = "GET" /\ reply.req.path = "/health" => Admitted
        /\ (/\ reply.req.path # "/health"
            /\ reply.req.xApiKey # apiKey
            /\ reply.req.api_key # apiKey) => ~Admitted

\* --------------------------------------------------------------------- C19
\* C19: a finished POST /rates/fetch has exactly one of three outcomes: 200
\* with a confirmation message when the cycle completed, 503 when the cycle
\* failed on persistent upstream unavailability, 500 when it raised any other
\* error; 200 is never the answer for a cycle that raised an error.
C19_TriggerOutcome ==
    \A p \in Procs :
        kind[p] = "manual" /\ pc[p] = "done" =>
            /\ raised[p] = "none" =>
                  outcome[p].result = "message" /\ outcome[p].status = 200
            /\ raised[p] = "HttpException" =>
                  outcome[p].result = "exception" /\ outcome[p].status = 503
            /\ raised[p] \notin {"none", "HttpException"} =>
                  outcome[p].result = "exception" /\ outcome[p].status = 500
            /\ raised[p] # "none" => outcome[p].status # 200

\* --------------------------------------------------------------------- C20
\* C20: all rows written by one cycle carry the same fetchedAt and the same
\* fetchedAtMinute, and every row of the table has
\* fetchedAtMinute = floor(fetchedAt in ms / 60000).
C20_OneTimestampPerCycle ==
    /\ \A p \in Procs : \A r1 \in wrote[p] : \A r2 \in wrote[p] :
          r1.fetchedAt = r2.fetchedAt /\ r1.fetchedAtMinute = r2.fetchedAtMinute
    /\ \A r \in store : r.fetchedAtMinute = r.fetchedAt \div 60000

\* A cycle wrote two rows with a fetchedAt after the epoch of the model, and
\* the clock has moved on since that fetchedAt was taken.
C20_Witness ==
    \E p \in Procs :
        /\ Cycle(p)
        /\ Cardinality(wrote[p]) = 2
        /\ \A r \in wrote[p] : r.fetchedAt > 0 /\ r.fetchedAt < clock

\* --------------------------------------------------------------------- C21
\* C21: every row was created by an ingestion cycle after a successful
\* upstream fetch: the operation that wrote it is a cycle whose fetchLatest
\* returned a snapshot, and its (targetCurrency, rate) is a pair of that
\* snapshot; no other operation reachable from the boundary creates rows.
C21_RowsComeFromSnapshots ==
    \A p \in Procs : \A r \in wrote[p] :
        /\ r \in store
        /\ Cycle(p)
        /\ response[p].kind = "snapshot"
        /\ \E i \in 1..Len(response[p].rates) :
              /\ response[p].rates[i].currency = r.targetCurrency
              /\ response[p].rates[i].rate = r.rate

\* --------------------------------------------------------------------- C22
\* C22: rows are never updated or deleted: every step of any cycle or save
\* keeps each row of the table as it is, with its base, target, rate,
\* fetchedAt and fetchedAtMinute; a later write for the same window with
\* another rate does not overwrite it.
C22_RowsNeverChange == [][store \subseteq store']_vars

\* An operation has gone past a pair whose window already held a row with
\* another rate; that row is still there.
C22_Witness ==
    \E p \in Procs : \E i \in FinishedCalls(p) : \E r \in store :
        /\ r.targetCurrency = PairAt(p, i).currency
        /\ r.fetchedAtMinute = fetchedAtMinute[p]
        /\ r.rate # PairAt(p, i).rate

\* --------------------------------------------------------------------- C23
\* fetchLatest handed fetchAndSaveRates a result whose rates mapping is empty
\* or not there.
NoRatesReturned(p) ==
    /\ FetchEnded(p)
    /\ raised[p] # "HttpException"
    /\ \/ response[p].kind # "snapshot"
       \/ Len(response[p].rates) = 0

\* The attempt of the cycle that has just ended was answered with a body whose
\* rates mapping is empty.
AnsweredEmpty(p) ==
    /\ Cycle(p)
    /\ resp[p].err = "none"
    /\ resp[p].data.isObject /\ resp[p].data.hasDate /\ resp[p].data.hasRates
    /\ Len(resp[p].data.rates) = 0

\* C23: when the upstream call returns a rates mapping that is empty or
\* absent (the upstream answered an empty mapping, or fetchLatest handed over
\* a result without rates), the cycle returns without error and has written
\* no row.
C23_EmptySnapshotIsNoOp ==
    \A p \in Procs :
        NoRatesReturned(p) \/ AnsweredEmpty(p) =>
            /\ pc[p] = "done"
            /\ raised[p] = "none"
            /\ wrote[p] = {}
            /\ attempted[p] = {}

\* A manual trigger whose upstream answered {date, rates: {}} has returned
\* its success message while the table holds rows of an earlier operation.
C23_Witness ==
    \E p \in Procs :
        /\ kind[p] = "manual"
        /\ NoRatesReturned(p)
        /\ AnsweredEmpty(p)
        /\ response[p].kind = "snapshot"
        /\ outcome[p].result = "message"
        /\ store # {}

\* --------------------------------------------------------------------- C24
\* The event loop runs every continuation whose promise has settled: each
\* request is sent, each attempt ends by response, error or timeout, each
\* timer fires once due, each store call returns, and time passes.
Fairness ==
    /\ \A p \in Procs : WF_vars(HttpGet(p))
    /\ \A p \in Procs :
          WF_vars(\E o \in {NetworkError} \cup {Answer(d) : d \in Payloads} : Respond(p, o))
    /\ \A p \in Procs : WF_vars(Wake(p))
    /\ \A p \in Procs : WF_vars(FindOne(p))
    /\ \A p \in Procs : WF_vars(Save(p))
    /\ WF_vars(Tick)

FairSpec == Spec /\ Fairness

\* The modelled time ends while the cycle waits for its backoff timer.
TimeEndsInBackoff(p) ==
    pc[p] = "sleep" /\ ticks = MaxTicks /\ clock < wakeAt[p]

\* The cycle ended in completion, every pair of its snapshot past its one
\* existence check and at most one save, or in final upstream failure after
\* at most 3 attempts.
RanToItsEnd(p) ==
    /\ pc[p] = "done"
    /\ \/ /\ raised[p] = "none"
          /\ response[p].kind = "snapshot"
          /\ attempted[p] = 1..Len(response[p].rates)
          /\ Cardinality(wrote[p]) <= Len(response[p].rates)
       \/ /\ raised[p] = "HttpException"
          /\ nreq[p] <= maxRetries
          /\ wrote[p] = {}

\* C24: every triggered cycle eventually terminates, given that each upstream
\* attempt ends and each store call returns: it ends in completion after at
\* most one write attempt per returned pair, or in final upstream failure
\* after at most 3 attempts; nothing ends it in between.
C24_CycleRunsToItsEnd ==
    \A p \in Procs :
        (Cycle(p) /\ pc[p] # "done") ~> (RanToItsEnd(p) \/ TimeEndsInBackoff(p))

\* --------------------------------------------------------------------- C25
\* C25: a request to GET /rates/average whose period is none of 1h, 6h, 12h,
\* 24h, 7d, or whose base or target is not a known currency code, is answered
\* 400 before it reaches the service: getAverageRate is not evaluated for it.
C25_BadAverageRequestIs400 ==
    /\ reply.req.method = "GET"
    /\ reply.req.path = "/rates/average"
    /\ canActivate(reply.req, apiKey)
    /\ \/ reply.req.period \notin Periods
       \/ reply.req.base \notin Currencies
       \/ reply.req.target \notin Currencies
    => /\ reply.status = BAD_REQUEST
       /\ answer.op # "getAverageRate"

\* --------------------------------------------------------------------- C26
\* Some cycle is between its start and its end.
CycleInFlight(q) == Cycle(q) /\ pc[q] \notin {"idle", "done"}

\* C26: a cron tick or a manual trigger that fires while a previous cycle is
\* still running starts its own cycle at once: whatever the other cycles are
\* doing, a handler context that is not busy can start a scheduled cycle, and
\* a manual one where HTTP requests are served; no cycle in flight blocks,
\* skips or delays it.
C26_OverlapAllowed ==
    \A p \in Procs :
        (/\ pc[p] \in {"idle", "done"}
         /\ hostAlive
         /\ ops < MaxOps
         /\ \E q \in Procs : CycleInFlight(q))
        => /\ ENABLED CronTick(p)
           /\ p \in HttpContexts => ENABLED PostFetch(p)

\* Two cycles are in progress at the same time: a manual one that has not yet
\* sent its upstream request and a scheduled one that is writing its pairs.
C26_Witness ==
    \E p \in Procs : \E q \in Procs :
        /\ kind[p] = "manual" /\ pc[p] = "request"
        /\ kind[q] = "sched" /\ pc[q] \in {"findOne", "save"}

\* --------------------------------------------------------------------- C27
\* Cycle q got its snapshot in the minute window in which the finished cycle
\* p wrote its rows.
SameWindowCycles(p, q) ==
    /\ p # q
    /\ Cycle(p) /\ pc[p] = "done" /\ wrote[p] # {}
    /\ Cycle(q) /\ FetchEnded(q) /\ response[q].kind = "snapshot"
    /\ fetchedAtMinute[q] = fetchedAtMinute[p]

\* C27: when cycles do not overlap, a second cycle run in the minute window of
\* a completed first one leaves, for every pair the first cycle wrote, the
\* table exactly as the first cycle left it: the window of the pair holds the
\* first cycle's row and nothing else, also when the second snapshot carries
\* other rates; the second cycle writes nothing for it and raises no error.
C27_SecondCycleChangesNothing ==
    \A p \in Procs : \A q \in Procs :
        SameWindowCycles(p, q) =>
            /\ \A r \in wrote[p] :
                  /\ RowsOf(r.baseCurrency, r.targetCurrency, r.fetchedAtMinute) = {r}
                  /\ \A w \in wrote[q] : w.targetCurrency # r.targetCurrency
            /\ raised[q] = "none"

\* A second cycle whose snapshot carries other rates has completed in the
\* window of the first.
C27_Witness ==
    \E p \in Procs : \E q \in Procs :
        /\ SameWindowCycles(p, q)
        /\ pc[q] = "done"
        /\ Cardinality(wrote[p]) = 2
        /\ \A i \in 1..Len(response[q].rates) : \A r \in wrote[p] :
              r.targetCurrency = response[q].rates[i].currency
                  => r.rate # response[q].rates[i].rate
        /\ Len(response[q].rates) = 2

\* --------------------------------------------------------------------- C28
\* C28: a read (GET /rates/latest, getLatestRates, getLatestTimestamp,
\* getAverageRate) leaves the table, its id sequence, the clock and every
\* ingestion in flight as they are, so that a write that could be made before
\* the read can be made after it; every rate it returns is the rate of a row
\* of the table, and an average it returns is the average of rows of the table.
C28_ReadsChangeNothing ==
    [][answer' # answer /\ answer'.op # "none" =>
          /\ UNCHANGED <<store, nextId, clock, apiKey>>
          /\ UNCHANGED ingestVars
          /\ \A t \in DOMAIN answer'.rates :
                \E r \in RowsOfPair(answer'.base, t) : r.rate = answer'.rates[t]
          /\ answer'.op = "getAverageRate" /\ answer'.status # NOT_FOUND =>
                LET sel == InWindow(answer'.base, answer'.target, answer'.since)
                IN  sel # {} /\ answer'.value = AVG(sel)]_vars

\* The latest rates of a base were returned from a table of several rows, at
\* least one of them not among the rows returned.
C28_Witness ==
    /\ answer.op = "getLatest"
    /\ answer.status = GetOk
    /\ \E r \in RowsOfBase(answer.base) :
          /\ r.targetCurrency \in DOMAIN answer.rates
          /\ r.rate # answer.rates[r.targetCurrency]
    /\ Cardinality(store) = MaxRows

\* --------------------------------------------------------------------- C29
\* The targets of the snapshot of cycle p.
TargetsOf(p) == {response[p].rates[i].currency : i \in 1..Len(response[p].rates)}

\* Both cycles have finished, each after fetching a snapshot, in the same
\* minute window and with the same targets.
RacedCycles(p, q) ==
    /\ p # q
    /\ Cycle(p) /\ pc[p] = "done" /\ response[p].kind = "snapshot"
    /\ Cycle(q) /\ pc[q] = "done" /\ response[q].kind = "snapshot"
    /\ fetchedAtMinute[p] = fetchedAtMinute[q]
    /\ TargetsOf(p) = TargetsOf(q)
    /\ TargetsOf(p) # {}

CompletedInEmptyWindow(p) ==
    /\ Cycle(p) /\ pc[p] = "done" /\ raised[p] = "none"
    /\ response[p].kind = "snapshot" /\ Len(response[p].rates) > 0
    /\ \A r \in store :
          r.baseCurrency = "USD" /\ r.fetchedAtMinute = fetchedAtMinute[p]
              => r \in wrote[p]

\* C30: with no concurrent writer, a cycle that completes without error in a
\* window that held no row for the base has added, for every (target, rate)
\* pair of its snapshot, exactly one row (base, target, rate, the cycle's
\* fetchedAt, the cycle's fetchedAtMinute), and no other row.
C30_UncontendedCycleWritesSnapshot ==
    \A p \in Procs :
        CompletedInEmptyWindow(p) =>
            /\ wrote[p] \subseteq store
            /\ \A i \in 1..Len(response[p].rates) :
                  Cardinality({r \in wrote[p] :
                      /\ r.baseCurrency = "USD"
                      /\ r.targetCurrency = response[p].rates[i].currency
                      /\ r.rate = response[p].rates[i].rate
                      /\ r.fetchedAt = now[p]
                      /\ r.fetchedAtMinute = fetchedAtMinute[p]}) = 1
            /\ Cardinality(wrote[p]) = Len(response[p].rates)

\* A cycle completed alone in an empty window, after the clock had advanced
\* and with an older row of another window in the table.
C30_Witness ==
    \E p \in Procs :
        /\ CompletedInEmptyWindow(p)
        /\ now[p] > 0
        /\ store # wrote[p]

\* --------------------------------------------------------------------- C31
\* C31: in every reachable state no two rows of the same (baseCurrency,
\* targetCurrency) have the same fetchedAt, so the row ranked first for each
\* target is unique and getLatestRates has one possible result for a given
\* table content: the tie on the timestamp never arises.
C31_NoTimestampTie ==
    /\ \A r1 \in store : \A r2 \in store :
          (/\ r1.baseCurrency = r2.baseCurrency
           /\ r1.targetCurrency = r2.targetCurrency
           /\ r1.fetchedAt = r2.fetchedAt) => r1 = r2
    /\ \A b \in QueryBases : Cardinality(newestRates(store, b)) = 1

\* Two cycles took the same new Date() and raced for one pair: one of them
\* wrote the row and the unique index ended the other, so no second row with
\* that fetchedAt exists.
C31_Witness ==
    \E p \in Procs : \E q \in Procs \ {p} :
        /\ Cycle(p) /\ Cycle(q)
        /\ now[p] = now[q]
        /\ raised[p] = "QueryFailedError"
        /\ \E r \in wrote[q] : r.fetchedAt = now[p]

\* --------------------------------------------------------------------- C32
\* C32: the timestamp of a GET /rates/latest response is the largest fetchedAt
\* among the rows whose rates are in that response, also when rows are saved
\* between the two reads the response is built from (getLatestRates, then
\* getLatestTimestamp).
C32_TimestampOfReturnedRows ==
    answer.op = "getLatest" /\ answer.status = GetOk =>
        /\ \E r \in answer.rows : r.fetchedAt = answer.value
        /\ \A r \in answer.rows : r.fetchedAt <= answer.value

\* --------------------------------------------------------------------- C33
\* C33: the dedup window of a cycle is fixed when its upstream fetch returns,
\* after all retries and backoff delays, not when the cycle was triggered:
\* now and fetchedAtMinute are taken from the clock at the step in which
\* fetchLatest hands over the snapshot, they do not change while the loop
\* runs, the existence check of each pair looks into that window, and each row
\* the cycle saves carries that now and that fetchedAtMinute, wherever the
\* wall clock has moved to in the meantime.
C33_WindowFixedWhenFetchReturns ==
    [][\A p \in Procs :
          /\ (/\ kind'[p] \in {"manual", "sched"}
              /\ response'[p] # response[p]
              /\ response'[p].kind = "snapshot")
                => /\ now'[p] = clock'
                   /\ fetchedAtMinute'[p] = clock' \div 60000
          /\ Cycle(p) /\ pc[p] \in {"findOne", "save"}
                => /\ now'[p] = now[p]
                   /\ fetchedAtMinute'[p] = fetchedAtMinute[p]
          /\ Cycle(p) /\ pc[p] = "findOne" /\ attempted'[p] # attempted[p]
                => (pc'[p] = "save"
                      <=> RowsOf("USD", Pair(p).currency, fetchedAtMinute[p]) = {})
          /\ Cycle(p)
                => \A r \in wrote'[p] \ wrote[p] :
                      /\ r \in store'
                      /\ r.fetchedAt = now[p]
                      /\ r.fetchedAtMinute = fetchedAtMinute[p]]_vars

\* A cycle whose first attempt failed took its now after the backoff, wrote a
\* row, and is about to save the next pair when the wall clock has already
\* crossed into the next minute.
C33_Witness ==
    \E p \in Procs :
        /\ Cycle(p)
        /\ Len(delays[p]) >= 1
        /\ now[p] > 0
        /\ pc[p] = "save"
        /\ wrote[p] # {}
        /\ MinuteOf(clock) > fetchedAtMinute[p]

====
